---- MODULE Spec2Model ----
(***************************************************************************)
(* SeatScout: the opening-hours check of the client (isOpenAtTime), the    *)
(* fetch-places edge function (filter + assembly of Location records) and  *)
(* the Index page's fetch / filter state machine.                          *)
(*                                                                         *)
(* The specifications share the variables:                                 *)
(*   SpecHours    : isOpenAtTime applied to bounded hours tables           *)
(*   SpecServe    : the fetch-places handler applied to bounded raw results*)
(*   SpecAssemble : the handler applied to retained records               *)
(*   SpecScore    : the scoring functions of the handler                   *)
(*   SpecCurve    : getPredictedAvailability of the details panel          *)
(*   Spec         : the Index page (fetches in flight, filters, time mode) *)
(***************************************************************************)
EXTENDS Integers, Sequences, FiniteSets, TLC

VARIABLES
    \* ---- opening-hours check (Index.tsx isOpenAtTime) ----
    loc,            \* the Location handed to isOpenAtTime
    today,          \* new Date().getDay() of the ambient clock, 0 = Sunday
    dayOffset,      \* the dayOffset argument of the last call
    openAt,         \* hour |-> result of isOpenAtTime(loc, dayOffset, hour)
    called,         \* TRUE once isOpenAtTime has been applied
    parsed,         \* openHour and closeHour of the last call, when the text matched
    \* ---- fetch-places edge function (geocode/index.ts serve) ----
    places,         \* placesData.places: the raw records of the collaborator
    filtered,       \* indices of places kept by results.filter(...)
    served,         \* the response body of the handler, "none" before it ran
    clock,          \* new Date().getHours() when the handler ran
    randoms,        \* Math.random() draws of the handler, as base popularities per record
    \* ---- Index page (Index.tsx) ----
    locations,      \* useState<Location[]>
    loading,        \* useState(false)
    filter,         \* useState<LocationType | 'all'>('all')
    userLocation,   \* useState<[number, number]>
    hasRealLocation,\* useState(false)
    inflight,       \* place fetches awaiting their response
    issued,         \* number of place fetches issued so far
    mounted,        \* the mount effects have run
    geoPending,     \* getCurrentPosition has not called back yet
    lastOutcome,    \* how the most recently completed fetch ended
    timeMode,       \* useState<'now' | 'later'>('now')
    selectedDate,   \* useState<number>(0), days from today
    selectedHour,   \* useState<number>(12)
    selectedLocation,   \* useState<Location | null>(null); <<>> is null
    locationsFor,       \* the request whose response is in locations, id 0 for none
    geocoding,          \* SearchBox: a geocode request is awaiting its response
    lastSearch,         \* SearchBox: how the last handleSearch ended
    isUserDraggingRef,  \* useRef(false)
    fetchTimeoutRef,    \* useRef<Timeout | null>(null): id of the last timer, 0 for null
    timers,             \* debounce timers set and neither fired nor cleared
    timersSet,          \* number of setTimeout calls so far
    lastMoveEnd,        \* centre reported by the last moveend of the drag under way
    \* ---- scoring functions applied on their own ----
    draw,           \* inputs of the popularity simulation / of getBusynessFromPopularity
    score,          \* what the function applied returned
    curve,          \* inputs of getPredictedAvailability: weekday, dayOffset, jitter
    availability,   \* the slots getPredictedAvailability returned
    closing         \* what getTodayClosingTime returned

hoursVars == <<loc, today, dayOffset, openAt, called, parsed>>
serveVars == <<places, filtered, served, clock, randoms>>
timeVars  == <<timeMode, selectedDate, selectedHour>>
searchVars == <<geocoding, lastSearch>>
mapVars   == <<isUserDraggingRef, fetchTimeoutRef, timers, timersSet, lastMoveEnd>>
pageVars  == <<locations, loading, filter, userLocation, hasRealLocation,
               inflight, issued, mounted, geoPending, lastOutcome, timeVars,
               selectedLocation, locationsFor, searchVars, mapVars>>
probeVars == <<draw, score, curve, availability, closing>>
vars == <<hoursVars, serveVars, pageVars, probeVars>>

Min(S) == CHOOSE x \in S : \A y \in S : x <= y

(***************************************************************************)
(* Text of a weekdayDescriptions entry, as a sequence of tokens.  A token  *)
(* is a record [k, h, p]: a weekday name, a clock time "h:00 p", a clock   *)
(* time without marker "h:00", the dash, a comma or a word.                *)
(***************************************************************************)
Day(n)     == [k |-> "day",   h |-> 0, p |-> n]
Time(h, p) == [k |-> "time",  h |-> h, p |-> p]
Bare(h)    == [k |-> "bare",  h |-> h, p |-> ""]
Dash       == [k |-> "dash",  h |-> 0, p |-> "-"]
Comma      == [k |-> "comma", h |-> 0, p |-> ","]
Word(w)    == [k |-> "word",  h |-> 0, p |-> w]

\* the hours of the day the result is tabulated for
Hours == 0..23

dayNames == <<"Sunday", "Monday", "Tuesday", "Wednesday", "Thursday",
              "Friday", "Saturday">>

\* targetDate.setDate(getDate() + dayOffset); targetDate.getDay()
getDay(dOff) == (today + dOff) % 7

\* desc.startsWith(targetDayName)
startsWith(desc, name) == Len(desc) > 0 /\ desc[1] = Day(name)

\* todayHours.includes('Closed')
includesClosed(desc) == \E i \in 1..Len(desc) : desc[i] = Word("Closed")

\* weekdayDescriptions.find(desc => desc.startsWith(name)); <<>> is undefined
findDesc(descs, name) ==
    LET idx == {i \in 1..Len(descs) : startsWith(descs[i], name)}
    IN  IF idx = {} THEN <<>> ELSE descs[Min(idx)]

\* positions where /(\d{1,2}):(\d{2})\s*(AM|PM)\s*-\s*(\d{1,2}):(\d{2})\s*(AM|PM)/ matches
timeMatches(desc) ==
    {i \in 1..(Len(desc) - 2) :
        desc[i].k = "time" /\ desc[i+1].k = "dash" /\ desc[i+2].k = "time"}

\* faulty variant: PM always adds 12, AM never resets
to24Mutant(h, period) == IF period = "PM" THEN h + 12 ELSE h

\* let hour = parseInt(str); if (PM && hour !== 12) hour += 12; if (AM && hour === 12) hour = 0
to24(h, period) ==
    IF period = "PM" /\ h # 12 THEN h + 12
    ELSE IF period = "AM" /\ h = 12 THEN 0
    ELSE h

\* faulty variant: a Closed entry is not recognised
closedCheckMutant(desc) == desc = <<>>

\* !todayHours || todayHours.includes('Closed')
closedCheck(desc) == desc = <<>> \/ includesClosed(desc)

\* faulty variant: unparseable text hides the venue
noMatchResultMutant == FALSE

\* if (!timeMatch) return true
noMatchResult == TRUE

\* faulty variant: the closing hour is included
inIntervalMutant(hour, openHour, closeHour) == hour >= openHour /\ hour <= closeHour

\* return hour >= openHour && hour < closeHour
inInterval(hour, openHour, closeHour) == hour >= openHour /\ hour < closeHour

\* openHour and closeHour as isOpenAtTime holds them before its last line;
\* matched is FALSE when it returned earlier
parsedHours(location, dOff) ==
    LET unmatched == [matched |-> FALSE, openHour |-> 0, closeHour |-> 0]
        targetDayName == dayNames[getDay(dOff) + 1]
        todayHours == findDesc(location.openingHours.weekdayDescriptions, targetDayName)
    IN  IF ~location.openingHours.hasDescriptions THEN unmatched
        ELSE IF closedCheck(todayHours) THEN unmatched
        ELSE IF timeMatches(todayHours) = {} THEN unmatched
        ELSE LET m == Min(timeMatches(todayHours))
             IN  [matched |-> TRUE,
                  openHour |-> to24(todayHours[m].h, todayHours[m].p),
                  closeHour |-> to24(todayHours[m+2].h, todayHours[m+2].p)]

isOpenAtTime(location, dOff, hour) ==
    IF ~location.openingHours.hasDescriptions THEN TRUE
    ELSE
    LET targetDayName == dayNames[getDay(dOff) + 1]
        todayHours == findDesc(location.openingHours.weekdayDescriptions, targetDayName)
    IN  IF closedCheck(todayHours) THEN FALSE
        ELSE IF timeMatches(todayHours) = {} THEN noMatchResult
        ELSE LET m == Min(timeMatches(todayHours))
                 openHour  == to24(todayHours[m].h, todayHours[m].p)
                 closeHour == to24(todayHours[m+2].h, todayHours[m+2].p)
             IN  inInterval(hour, openHour, closeHour)

\* positions of a dash followed by a clock time with its marker:
\* /-\s*(\d{1,2}:\d{2}\s*(?:AM|PM))/
closingMatches(desc) ==
    {i \in 1..(Len(desc) - 1) : desc[i].k = "dash" /\ desc[i+1].k = "time"}

\* faulty variant: the openNow flag is not looked at
getTodayClosingTimeMutant(location) ==
    IF ~location.openingHours.hasDescriptions THEN <<>>
    ELSE
    LET todayName == dayNames[getDay(0) + 1]
        todayHours == findDesc(location.openingHours.weekdayDescriptions, todayName)
    IN  IF todayHours = <<>> \/ includesClosed(todayHours) THEN <<>>
        ELSE IF closingMatches(todayHours) = {} THEN <<>>
        ELSE <<todayHours[Min(closingMatches(todayHours)) + 1]>>

\* getTodayClosingTime of the details panel; <<>> is undefined, openNow is
\* "true", "false" or "absent"
getTodayClosingTime(location) ==
    IF ~location.openingHours.hasDescriptions \/ location.openingHours.openNow # "true"
    THEN <<>>
    ELSE
    LET todayName == dayNames[getDay(0) + 1]
        todayHours == findDesc(location.openingHours.weekdayDescriptions, todayName)
    IN  IF todayHours = <<>> \/ includesClosed(todayHours) THEN <<>>
        ELSE IF closingMatches(todayHours) = {} THEN <<>>
        ELSE <<todayHours[Min(closingMatches(todayHours)) + 1]>>

(***************************************************************************)
(* fetch-places edge function: the raw place records, the filter and the   *)
(* assembly of Location records.  A rating is held in tenths (3.0 is 30),  *)
(* -1 standing for an absent rating; a name is its sequence of words.      *)
(***************************************************************************)
\* name = (place.displayName?.text || '').toLowerCase(), word by word
toLowerCase(name) ==
    [i \in 1..Len(name) |->
        CASE name[i] = "Public"     -> "public"
          [] name[i] = "Branch"     -> "branch"
          [] name[i] = "University" -> "university"
          [] name[i] = "City"       -> "city"
          [] name[i] = "College"    -> "college"
          [] name[i] = "Library"    -> "library"
          [] name[i] = "Central"    -> "central"
          [] name[i] = "Downtown"   -> "downtown"
          [] OTHER                  -> name[i]]

\* name.includes(keyword): the keyword is a substring of some word
nameIncludes(name, keyword) ==
    \E i \in 1..Len(name) :
        \/ name[i] = keyword
        \/ (name[i] = "downtown" /\ keyword = "town")

institutionalTypes == {"university", "school", "secondary_school", "primary_school", "college"}
institutionalKeywords == {"college", "university", "school", "academy", "institute", "campus"}
publicIndicators == {"public", "city", "county", "town", "municipal", "branch"}

\* faulty variant: the rule is skipped
hoursRuleMutant(place) == TRUE

\* if (!place.currentOpeningHours?.weekdayDescriptions) return false
hoursRule(place) == place.hasDescriptions

\* faulty variant: the floor is 2.5 and unrated places pass
ratingRuleMutant(place) == place.rating = -1 \/ place.rating >= 25

\* if (!place.rating || place.rating < 3.0) return false
ratingRule(place) == ~(place.rating = -1 \/ place.rating = 0 \/ place.rating < 30)

\* faulty variant: the public-indicator test is missing
libraryRuleMutant(place) ==
    LET name == toLowerCase(place.name) IN
    (("library" \in place.types) =>
        /\ place.types \cap institutionalTypes = {}
        /\ ~\E kw \in institutionalKeywords : nameIncludes(name, kw))

\* if (types.includes('library')) { three checks, each return false }
libraryRule(place) ==
    LET name == toLowerCase(place.name) IN
    (("library" \in place.types) =>
        /\ place.types \cap institutionalTypes = {}
        /\ ~\E kw \in institutionalKeywords : nameIncludes(name, kw)
        /\ \E kw \in publicIndicators : nameIncludes(name, kw))

\* faulty variant: any place that is not dine-in is excluded
cafeRuleMutant(place) ==
    /\ ~(place.dineIn # "true")
    /\ ~("fast_food_restaurant" \in place.types /\ "cafe" \notin place.types)

\* dineIn === false && takeout === true; fast_food_restaurant without cafe
cafeRule(place) ==
    /\ ~(place.dineIn = "false" /\ place.takeout = "true")
    /\ ~("fast_food_restaurant" \in place.types /\ "cafe" \notin place.types)

\* place.dineIn !== false || types.includes('cafe') || types.includes('coffee_shop')
bakeryRule(place) ==
    \/ place.dineIn # "false"
    \/ "cafe" \in place.types
    \/ "coffee_shop" \in place.types

\* the callback of results.filter(...)
placeFilter(place) ==
    IF ~hoursRule(place) THEN FALSE
    ELSE IF ~ratingRule(place) THEN FALSE
    ELSE IF ~libraryRule(place) THEN FALSE
    ELSE IF "cafe" \in place.types \/ "coffee_shop" \in place.types THEN cafeRule(place)
    ELSE IF "bakery" \in place.types THEN bakeryRule(place)
    ELSE TRUE

\* faulty variant: every record is a cafe
determineLocationTypeMutant(types) == "cafe"

determineLocationType(types) ==
    IF "library" \in types THEN "library"
    ELSE IF "cafe" \in types \/ "coffee_shop" \in types THEN "cafe"
    ELSE IF "restaurant" \in types \/ "bakery" \in types \/ "food" \in types THEN "cafe"
    ELSE "cafe"

\* if (!placeLat || !placeLng) return null
hasCoordinates(place) ==
    /\ place.location.present
    /\ place.location.latitude # 0
    /\ place.location.longitude # 0

Abs(x) == IF x < 0 THEN -x ELSE x

(***************************************************************************)
(* Geo math.  Coordinates are counted in centimetres of arc along one      *)
(* meridian (every drawn point has the same truthy longitude), where the   *)
(* haversine distance is R * |lat2 - lat1|; distances are in centimetres.  *)
(***************************************************************************)
calculateDistance(lat1, lon1, lat2, lon2) == Abs(lat2 - lat1)

\* faulty variant: minutes are rounded down
calculateWalkingTimeMutant(distanceInCm) == distanceInCm \div 8333

\* Math.ceil(distanceInMeters / 83.33)
calculateWalkingTime(distanceInCm) == (distanceInCm + 8332) \div 8333

\* Math.round(distance), in metres
roundMetres(distanceInCm) == (distanceInCm + 50) \div 100

\* faulty variant: the tiers start at 30 and 70 exclusive
getBusynessFromPopularityMutant(popularity) ==
    IF popularity = -1 \/ popularity = 0 THEN "low"
    ELSE IF popularity <= 30 THEN "low"
    ELSE IF popularity <= 70 THEN "moderate"
    ELSE "high"

\* popularity -1 is undefined
getBusynessFromPopularity(popularity) ==
    IF popularity = -1 \/ popularity = 0 THEN "low"
    ELSE IF popularity < 30 THEN "low"
    ELSE IF popularity < 70 THEN "moderate"
    ELSE "high"

\* faulty variant: a continuous likelihood for high
getLikelihoodFromBusynessMutant(busyness) ==
    IF busyness = "low" THEN 85
    ELSE IF busyness = "moderate" THEN 50
    ELSE 25

getLikelihoodFromBusyness(busyness) ==
    IF busyness = "low" THEN 85
    ELSE IF busyness = "moderate" THEN 50
    ELSE 20

\* (hour >= 8 && hour <= 10) || (hour >= 12 && hour <= 14) || (hour >= 17 && hour <= 19)
isPeakHour(hour) ==
    \/ (hour >= 8 /\ hour <= 10)
    \/ (hour >= 12 /\ hour <= 14)
    \/ (hour >= 17 /\ hour <= 19)

\* faulty variant: a boost of 10
ratingBoostMutant(rating) == IF rating > 43 THEN 10 ELSE 0

\* (place.rating || 0) > 4.3 ? 20 : 0
ratingBoost(rating) == IF rating > 43 THEN 20 ELSE 0

MinOf(a, b) == IF a < b THEN a ELSE b

\* faulty variant: the peak-hour addition is not capped
currentPopularityMutant(base, hour, rating) ==
    LET peaked == IF isPeakHour(hour) THEN base + 30 ELSE base
    IN  peaked + ratingBoost(rating)

\* basePopularity after the peak-hour and rating steps; base is
\* Math.floor(Math.random() * 60) + 20
currentPopularity(base, hour, rating) ==
    LET peaked == IF isPeakHour(hour) THEN MinOf(100, base + 30) ELSE base
    IN  MinOf(100, peaked + ratingBoost(rating))

\* the object literal returned by the map callback; id is the record's
\* position in the collaborator's result list; a distance is in metres
toLocation(place, i, req, hour, base) ==
    LET distance == calculateDistance(req.lat, req.lng,
                                      place.location.latitude, place.location.longitude)
        walkingTime == calculateWalkingTime(distance)
        busyness == getBusynessFromPopularity(currentPopularity(base, hour, place.rating))
        locationType == determineLocationType(place.types)
    IN
    [id |-> i,
     type |-> locationType,
     lat |-> place.location.latitude,
     lng |-> place.location.longitude,
     busyness |-> busyness,
     likelihood |-> getLikelihoodFromBusyness(busyness),
     hasWifi |-> (locationType = "cafe"),
     distance |-> roundMetres(distance),
     walkingTime |-> walkingTime,
     rating |-> place.rating,
     openingHours |-> [hasDescriptions |-> place.hasDescriptions,
                       weekdayDescriptions |-> IF place.hasDescriptions
                                               THEN place.weekdayDescriptions ELSE <<>>]]

\* faulty variant: the assembled records come out in reverse order
RECURSIVE assembleMutant(_, _, _, _, _)
assembleMutant(results, i, req, hour, rnd) ==
    IF i > Len(results) THEN <<>>
    ELSE assembleMutant(results, i + 1, req, hour, rnd) \o
         (IF placeFilter(results[i]) /\ hasCoordinates(results[i])
          THEN <<toLocation(results[i], i, req, hour, rnd[i])>> ELSE <<>>)

\* results.filter(...).map(...).filter(Boolean), from position i on
RECURSIVE assemble(_, _, _, _, _)
assemble(results, i, req, hour, rnd) ==
    IF i > Len(results) THEN <<>>
    ELSE (IF placeFilter(results[i]) /\ hasCoordinates(results[i])
          THEN <<toLocation(results[i], i, req, hour, rnd[i])>> ELSE <<>>)
         \o assemble(results, i + 1, req, hour, rnd)

(***************************************************************************)
(* SpecHours: isOpenAtTime applied to bounded hours tables.                *)
(***************************************************************************)
\* longest weekdayDescriptions array drawn
MaxEntries == 2
\* largest dayOffset handed to isOpenAtTime
MaxDayOffset == 1

\* weekdays that occur as the prefix of a drawn entry
DescDays == {"Monday", "Tuesday"}

\* weekdays of the ambient clock drawn: Sunday, Monday, Saturday
Todays == {0, 1, 6}

OpenTimes  == {Time(9, "AM"), Time(12, "AM"), Time(12, "PM")}
CloseTimes == {Time(5, "PM"), Time(12, "AM"), Time(1, "AM")}

\* the text after "<Weekday>: "
Bodies ==
    {<<o, Dash, c>> : o \in OpenTimes, c \in CloseTimes}
    \cup {<<Word("Closed")>>,
          <<Word("Open 24 hours")>>,
          <<Bare(1), Dash, Time(5, "PM")>>,
          <<Time(9, "AM"), Dash, Time(12, "PM"), Comma, Time(1, "PM"), Dash, Time(5, "PM")>>}

Entries == {<<Day(d)>> \o b : d \in DescDays, b \in Bodies}

Tables == UNION {[1..n -> Entries] : n \in 0..MaxEntries}

NoOpeningHours == [hasDescriptions |-> FALSE, weekdayDescriptions |-> <<>>]

ProbeLocations ==
    {[openingHours |-> NoOpeningHours]}
    \cup {[openingHours |-> [hasDescriptions |-> TRUE, weekdayDescriptions |-> t]] : t \in Tables}

ServeIdle ==
    /\ places = <<>>
    /\ filtered = {}
    /\ served = [done |-> FALSE, error |-> FALSE, locations |-> <<>>]
    /\ clock = 0
    /\ randoms = <<>>

\* locationsFor while no response has been stored
NoRequest == [id |-> 0, point |-> "none", type |-> "none", includedTypes |-> {}]

PageIdle ==
    /\ locations = <<>>
    /\ loading = FALSE
    /\ filter = "all"
    /\ userLocation = "default"
    /\ hasRealLocation = FALSE
    /\ inflight = {}
    /\ issued = 0
    /\ mounted = FALSE
    /\ geoPending = FALSE
    /\ lastOutcome = "none"
    /\ timeMode = "now"
    /\ selectedDate = 0
    /\ selectedHour = 12
    /\ selectedLocation = <<>>
    /\ locationsFor = NoRequest
    /\ geocoding = FALSE
    /\ lastSearch = [outcome |-> "none", matches |-> <<>>, point |-> "none", address |-> "none"]
    /\ isUserDraggingRef = FALSE
    /\ fetchTimeoutRef = 0
    /\ timers = {}
    /\ timersSet = 0
    /\ lastMoveEnd = "none"

NoDraw == [base |-> 20, hour |-> 0, rating |-> -1, popularity |-> -1]
NoScore == [call |-> "none", popularity |-> -1, busyness |-> "low", likelihood |-> 85]
NoCurve == [today |-> 0, dayOffset |-> 0, jitter |-> <<>>]
NoClosing == [called |-> FALSE, result |-> <<>>]

ProbeIdle ==
    /\ draw = NoDraw
    /\ score = NoScore
    /\ curve = NoCurve
    /\ availability = <<>>
    /\ closing = NoClosing

HoursIdle ==
    /\ loc = [openingHours |-> NoOpeningHours]
    /\ today = 0
    /\ dayOffset = 0
    /\ openAt = [h \in Hours |-> FALSE]
    /\ called = FALSE
    /\ parsed = [matched |-> FALSE, openHour |-> 0, closeHour |-> 0]

InitHours ==
    /\ loc \in ProbeLocations
    /\ today \in Todays
    /\ dayOffset = 0
    /\ openAt = [h \in Hours |-> FALSE]
    /\ called = FALSE
    /\ parsed = [matched |-> FALSE, openHour |-> 0, closeHour |-> 0]
    /\ ServeIdle
    /\ PageIdle
    /\ ProbeIdle

\* isOpenAtTime(loc, d, hour) for every hour of the day
CallIsOpenAtTime(d) ==
    /\ dayOffset' = d
    /\ openAt' = [h \in Hours |-> isOpenAtTime(loc, d, h)]
    /\ called' = TRUE
    /\ parsed' = parsedHours(loc, d)
    /\ UNCHANGED <<loc, today, serveVars, pageVars, probeVars>>

NextHours == \E d \in 0..MaxDayOffset : CallIsOpenAtTime(d)

SpecHours == InitHours /\ [][NextHours]_vars

(***************************************************************************)
(* SpecClock: isOpenAtTime applied to a Monday entry with every pair of    *)
(* 12-hour clock times, followed by a Tuesday entry.                       *)
(***************************************************************************)
ClockTimes == {Time(h, p) : h \in 1..12, p \in {"AM", "PM"}}

ClockTables ==
    {<<<<Day("Monday"), o, Dash, c>>,
       <<Day("Tuesday"), Time(9, "AM"), Dash, Time(5, "PM")>>>> :
        o \in ClockTimes, c \in ClockTimes}

\* the ambient clock is on Sunday or Monday
InitClock ==
    /\ \E t \in ClockTables :
          loc = [openingHours |-> [hasDescriptions |-> TRUE, weekdayDescriptions |-> t]]
    /\ today \in {0, 1}
    /\ dayOffset = 0
    /\ openAt = [h \in Hours |-> FALSE]
    /\ called = FALSE
    /\ parsed = [matched |-> FALSE, openHour |-> 0, closeHour |-> 0]
    /\ ServeIdle
    /\ PageIdle
    /\ ProbeIdle

SpecClock == InitClock /\ [][NextHours]_vars

(***************************************************************************)
(* SpecClosing: getTodayClosingTime applied to bounded hours tables.       *)
(***************************************************************************)
\* the text after "<Weekday>: "
ClosingBodies ==
    {<<Time(9, "AM"), Dash, Time(5, "PM")>>,
     <<Time(12, "PM"), Dash, Time(12, "AM")>>,
     <<Word("Closed")>>,
     <<Word("Open 24 hours")>>,
     <<Bare(1), Dash, Time(5, "PM")>>,
     <<Time(9, "AM"), Dash, Bare(5)>>,
     <<Time(9, "AM"), Dash, Time(12, "PM"), Comma, Time(1, "PM"), Dash, Time(5, "PM")>>}

ClosingEntries == {<<Day(d)>> \o b : d \in DescDays, b \in ClosingBodies}

\* openingHours.openNow: true, false or undefined
OpenNowFlags == {"true", "false", "absent"}

InitClosing ==
    /\ \/ \E o \in OpenNowFlags :
             loc = [openingHours |-> [hasDescriptions |-> FALSE,
                                      weekdayDescriptions |-> <<>>, openNow |-> o]]
       \/ \E n \in 0..MaxEntries :
             \E t \in [1..n -> ClosingEntries], o \in OpenNowFlags :
                loc = [openingHours |-> [hasDescriptions |-> TRUE,
                                         weekdayDescriptions |-> t, openNow |-> o]]
    /\ today \in Todays
    /\ dayOffset = 0
    /\ openAt = [h \in Hours |-> FALSE]
    /\ called = FALSE
    /\ parsed = [matched |-> FALSE, openHour |-> 0, closeHour |-> 0]
    /\ draw = NoDraw
    /\ score = NoScore
    /\ curve = NoCurve
    /\ availability = <<>>
    /\ closing = NoClosing
    /\ ServeIdle
    /\ PageIdle

CallGetTodayClosingTime ==
    /\ ~closing.called
    /\ closing' = [called |-> TRUE, result |-> getTodayClosingTime(loc)]
    /\ UNCHANGED <<draw, score, curve, availability, hoursVars, serveVars, pageVars>>

NextClosing == CallGetTodayClosingTime

SpecClosing == InitClosing /\ [][NextClosing]_vars

(***************************************************************************)
(* SpecServe: the fetch-places handler applied to bounded raw results.     *)
(***************************************************************************)
\* longest result list of the place-search collaborator drawn
MaxPlaces == 2

TypeSets ==
    {{"cafe"}, {"coffee_shop"}, {"coffee_shop", "fast_food_restaurant"},
     {"cafe", "fast_food_restaurant"}, {"library"}, {"library", "university"},
     {"library", "cafe"}, {"library", "bakery"}, {"bakery"},
     {"bakery", "coffee_shop"}, {"restaurant"}}

Names ==
    {<<"Public", "Library", "Branch">>, <<"University", "Library">>,
     <<"Central", "Library">>, <<"City", "College", "Library">>}

\* absent, 2.9, 3.0, 4.2
Ratings == {-1, 29, 30, 42}

Tristate == {"true", "false", "absent"}

NoLocation == [present |-> FALSE, latitude |-> 0, longitude |-> 0]
PlaceLocations ==
    {NoLocation,
     [present |-> TRUE, latitude |-> 0, longitude |-> 1],
     [present |-> TRUE, latitude |-> 1, longitude |-> 1]}

\* an hours table of the collaborator: Monday 9 to 5, Tuesday closed
WeekTable ==
    <<<<Day("Monday"), Time(9, "AM"), Dash, Time(5, "PM")>>,
      <<Day("Tuesday"), Word("Closed")>>>>

\* Monday noon to 9 PM, Tuesday 9 to 5
EveningTable ==
    <<<<Day("Monday"), Time(12, "PM"), Dash, Time(9, "PM")>>,
      <<Day("Tuesday"), Time(9, "AM"), Dash, Time(5, "PM")>>>>

\* popularity is a popularity the collaborator declares for the place, -1
\* when it declares none
RawPlaces ==
    [types : TypeSets, name : Names, rating : Ratings, hasDescriptions : BOOLEAN,
     weekdayDescriptions : {WeekTable}, popularity : {-1},
     dineIn : Tristate, takeout : Tristate, location : PlaceLocations]

\* the records around the freely drawn one
Fillers ==
    {[types |-> {"cafe"}, name |-> <<"Central", "Library">>, rating |-> 42,
      hasDescriptions |-> TRUE, weekdayDescriptions |-> WeekTable,
        popularity |-> -1, dineIn |-> "absent", takeout |-> "absent",
      location |-> [present |-> TRUE, latitude |-> 1, longitude |-> 1]],
     [types |-> {"library"}, name |-> <<"Public", "Library", "Branch">>, rating |-> 42,
      hasDescriptions |-> TRUE, weekdayDescriptions |-> WeekTable,
        popularity |-> -1, dineIn |-> "absent", takeout |-> "absent",
      location |-> NoLocation]}

\* the request body { lat, lng, type }
Requests == [lat : {0, 1}, lng : {0, 1}, type : {"cafe", "library"}]

NotServed == [done |-> FALSE, error |-> FALSE, locations |-> <<>>]

\* result lists: one freely drawn record at any position among fillers
InitServe ==
    /\ \/ places = <<>>
       \/ \E n \in 1..MaxPlaces :
            \E k \in 1..n, r \in RawPlaces, f \in [1..n -> Fillers] :
               places = [i \in 1..n |-> IF i = k THEN r ELSE f[i]]
    /\ filtered = {}
    /\ served = NotServed
    /\ clock = 0
    /\ randoms = <<>>
    /\ HoursIdle
    /\ PageIdle
    /\ ProbeIdle

\* the handler, from req.json() to the Response; apiKey and ok are the
\* environment's key and the collaborator's HTTP status, hour the ambient
\* clock's hour and rnd the base popularity drawn for each record
Serve(req, apiKey, ok, hour, rnd) ==
    /\ ~served.done
    /\ IF req.lat = 0 \/ req.lng = 0 \/ ~apiKey \/ ~ok
       THEN /\ filtered' = {}
            /\ served' = [done |-> TRUE, error |-> TRUE, locations |-> <<>>]
            /\ UNCHANGED <<clock, randoms>>
       ELSE /\ filtered' = {i \in 1..Len(places) : placeFilter(places[i])}
            /\ served' = [done |-> TRUE, error |-> FALSE,
                          locations |-> assemble(places, 1, req, hour, rnd)]
            /\ clock' = hour
            /\ randoms' = rnd
    /\ UNCHANGED <<places, hoursVars, pageVars, probeVars>>

\* base popularities drawn: Math.floor(Math.random() * 60) + 20 is in 20..79
BaseDraws == {20, 29, 49, 79}

\* a rejected or accepted request at an off-peak hour, and a missing key, a
\* failing collaborator or neither at a peak hour
NextServe ==
    \/ \E req \in Requests :
          Serve(req, TRUE, TRUE, 7, [i \in 1..Len(places) |-> 20])
    \/ \E apiKey \in BOOLEAN, ok \in BOOLEAN, base \in {20, 79} :
          Serve([lat |-> 1, lng |-> 1, type |-> "cafe"], apiKey, ok, 12,
                [i \in 1..Len(places) |-> base])

SpecServe == InitServe /\ [][NextServe]_vars

(***************************************************************************)
(* SpecAssemble: the handler applied to records the filter retains, at     *)
(* distances around the rounding and walking-minute steps.                 *)
(***************************************************************************)
\* the query point of the request body
AssembleQuery == [lat |-> 1, lng |-> 1, type |-> "cafe"]

\* a retained record of the given kind, rating, declared popularity and
\* distance in centimetres north of the query point
scoredPlace(types, name, rating, popularity, north) ==
    [types |-> types, name |-> name, rating |-> rating,
     hasDescriptions |-> TRUE, weekdayDescriptions |-> WeekTable,
     popularity |-> popularity, dineIn |-> "absent", takeout |-> "absent",
     location |-> [present |-> TRUE, latitude |-> AssembleQuery.lat + north,
                   longitude |-> AssembleQuery.lng]]

\* at the query point, 1 cm, 83.40 m, 166.50 m and 500 m away, and one
\* record without coordinates
ScoredPlaces ==
    {scoredPlace({"cafe"}, <<"Central", "Library">>, 42, -1, 0),
     scoredPlace({"cafe"}, <<"Central", "Library">>, 30, 10, 1),
     scoredPlace({"cafe"}, <<"Central", "Library">>, 45, 50, 8340),
     scoredPlace({"library"}, <<"Public", "Library", "Branch">>, 42, -1, 16650),
     scoredPlace({"coffee_shop"}, <<"Central", "Library">>, 45, 90, 50000),
     [scoredPlace({"cafe"}, <<"Central", "Library">>, 42, -1, 0)
        EXCEPT !.location = NoLocation]}

\* ambient hours drawn: before, at the start of, between, at the end of and
\* after the peak windows
AssembleHours == {7, 8, 11, 19, 23}

InitAssemble ==
    /\ \E n \in 0..MaxPlaces : places \in [1..n -> ScoredPlaces]
    /\ filtered = {}
    /\ served = NotServed
    /\ clock = 0
    /\ randoms = <<>>
    /\ HoursIdle
    /\ PageIdle
    /\ ProbeIdle

NextAssemble ==
    \E hour \in AssembleHours, rnd \in [1..Len(places) -> BaseDraws] :
        Serve(AssembleQuery, TRUE, TRUE, hour, rnd)

SpecAssemble == InitAssemble /\ [][NextAssemble]_vars

(***************************************************************************)
(* SpecScore: the scoring functions of the handler applied on their own.   *)
(***************************************************************************)
\* absent, 3.0, 4.3, 4.4, 5.0
ScoreRatings == {-1, 30, 43, 44, 50}

\* a simulation input (base draw, hour, rating), or a popularity handed to
\* getBusynessFromPopularity
InitScore ==
    /\ \/ draw \in [base : 20..79, hour : Hours, rating : ScoreRatings, popularity : {-1}]
       \/ draw \in [base : {20}, hour : {0}, rating : {-1}, popularity : -1..100]
    /\ score = NoScore
    /\ curve = NoCurve
    /\ availability = <<>>
    /\ closing = NoClosing
    /\ HoursIdle
    /\ ServeIdle
    /\ PageIdle

\* the map callback's simulation, from the base draw to the likelihood
SimulatePopularity ==
    /\ score.call = "none"
    /\ LET estimate == currentPopularity(draw.base, draw.hour, draw.rating)
           busyness == getBusynessFromPopularity(estimate)
       IN  score' = [call |-> "simulate", popularity |-> estimate, busyness |-> busyness,
                     likelihood |-> getLikelihoodFromBusyness(busyness)]
    /\ UNCHANGED <<draw, curve, availability, closing, hoursVars, serveVars, pageVars>>

\* getBusynessFromPopularity(draw.popularity) and the likelihood mapped from it
CallGetBusyness ==
    /\ score.call = "none"
    /\ LET busyness == getBusynessFromPopularity(draw.popularity)
       IN  score' = [call |-> "busyness", popularity |-> draw.popularity,
                     busyness |-> busyness,
                     likelihood |-> getLikelihoodFromBusyness(busyness)]
    /\ UNCHANGED <<draw, curve, availability, closing, hoursVars, serveVars, pageVars>>

NextScore == SimulatePopularity \/ CallGetBusyness

SpecScore == InitScore /\ [][NextScore]_vars

(***************************************************************************)
(* SpecCurve: getPredictedAvailability of the details panel.  Likelihoods  *)
(* are computed in tenths of a percent; a jitter is Math.random() * 10 - 5 *)
(* in tenths, from -50 up to 49.                                           *)
(***************************************************************************)
timeSlots ==
    <<[hour |-> 8,  baseLikelihood |-> 90],
      [hour |-> 10, baseLikelihood |-> 70],
      [hour |-> 12, baseLikelihood |-> 30],
      [hour |-> 14, baseLikelihood |-> 60],
      [hour |-> 16, baseLikelihood |-> 50],
      [hour |-> 18, baseLikelihood |-> 40]>>

\* dayOfWeek === 0 || dayOfWeek === 6
isWeekend(dayOfWeek) == dayOfWeek = 0 \/ dayOfWeek = 6

MaxOf(a, b) == IF a > b THEN a ELSE b

\* Math.round of a non-negative number of tenths
roundTenths(x) == (x + 5) \div 10

\* faulty variant: the weekend adjustment is applied to every slot
getPredictedAvailabilityMutant(weekday, dOff, jitter) ==
    LET dayOfWeek == (weekday + dOff) % 7
        slot(i) ==
            LET base == timeSlots[i].baseLikelihood * 10
                adjusted == IF isWeekend(dayOfWeek) THEN MinOf(1000, base + 150) ELSE base
                likelihood == IF dOff > 0
                              THEN MaxOf(200, MinOf(950, adjusted + jitter[i]))
                              ELSE adjusted
            IN  [hour |-> timeSlots[i].hour, likelihood |-> roundTenths(likelihood)]
    IN  [i \in 1..Len(timeSlots) |-> slot(i)]

\* timeSlots.map(...) on the weekday dOff days after weekday
getPredictedAvailability(weekday, dOff, jitter) ==
    LET dayOfWeek == (weekday + dOff) % 7
        slot(i) ==
            LET base == timeSlots[i].baseLikelihood * 10
                adjusted == IF /\ isWeekend(dayOfWeek)
                               /\ timeSlots[i].hour >= 9
                               /\ timeSlots[i].hour <= 17
                            THEN MinOf(1000, base + 150) ELSE base
                likelihood == IF dOff > 0
                              THEN MaxOf(200, MinOf(950, adjusted + jitter[i]))
                              ELSE adjusted
            IN  [hour |-> timeSlots[i].hour, likelihood |-> roundTenths(likelihood)]
    IN  [i \in 1..Len(timeSlots) |-> slot(i)]

\* jitters drawn: -5.0, -4.5, +4.5, +4.9
JitterDraws == {-50, -45, 45, 49}

\* today (dayOffset 0) draws no jitter
InitCurve ==
    /\ \E weekday \in 0..6, dOff \in 0..MaxDayOffset :
          \E jitter \in [1..Len(timeSlots) -> IF dOff = 0 THEN {0} ELSE JitterDraws] :
              curve = [today |-> weekday, dayOffset |-> dOff, jitter |-> jitter]
    /\ availability = <<>>
    /\ closing = NoClosing
    /\ draw = NoDraw
    /\ score = NoScore
    /\ HoursIdle
    /\ ServeIdle
    /\ PageIdle

CallGetPredictedAvailability ==
    /\ availability = <<>>
    /\ availability' = getPredictedAvailability(curve.today, curve.dayOffset, curve.jitter)
    /\ UNCHANGED <<curve, draw, score, closing, hoursVars, serveVars, pageVars>>

NextCurve == CallGetPredictedAvailability

SpecCurve == InitCurve /\ [][NextCurve]_vars

(***************************************************************************)
(* Spec: the Index page.  A query point is named by its origin; a place    *)
(* fetch is in flight from fetchNearbyPlaces' request until its response   *)
(* (or failure) is handled.                                                *)
(***************************************************************************)
\* place fetches issued in one run
MaxFetches == 3
\* debounce timers set in one run
MaxTimers == 2

Filters == {"all", "cafe", "library"}

\* faulty variant: a library search for every type but cafe
includedTypesMutant(type) ==
    IF type = "cafe" THEN {"cafe", "coffee_shop"} ELSE {"library"}

\* includedTypes = type === 'library' ? ['library'] : ['cafe', 'coffee_shop']
includedTypes(type) == IF type = "library" THEN {"library"} ELSE {"cafe", "coffee_shop"}

\* faulty variant: the last match is returned
geocodeMutant(hasKey, apiOk, matches) ==
    IF ~hasKey THEN [ok |-> FALSE, error |-> TRUE, point |-> "none", formattedAddress |-> "none"]
    ELSE IF ~apiOk THEN [ok |-> FALSE, error |-> TRUE, point |-> "none", formattedAddress |-> "none"]
    ELSE IF matches = <<>> THEN [ok |-> FALSE, error |-> TRUE, point |-> "none", formattedAddress |-> "none"]
    ELSE LET place == matches[Len(matches)] IN
         [ok |-> TRUE, error |-> FALSE, point |-> place.location,
          formattedAddress |-> IF place.formattedAddress # "" THEN place.formattedAddress
                               ELSE place.displayName]

\* the geocode handler for a non-empty address: status 500 without a key,
\* 400 when the text search fails, 404 without a match, else the first match
geocode(hasKey, apiOk, matches) ==
    IF ~hasKey THEN [ok |-> FALSE, error |-> TRUE, point |-> "none", formattedAddress |-> "none"]
    ELSE IF ~apiOk THEN [ok |-> FALSE, error |-> TRUE, point |-> "none", formattedAddress |-> "none"]
    ELSE IF matches = <<>> THEN [ok |-> FALSE, error |-> TRUE, point |-> "none", formattedAddress |-> "none"]
    ELSE LET place == matches[1] IN
         [ok |-> TRUE, error |-> FALSE, point |-> place.location,
          formattedAddress |-> IF place.formattedAddress # "" THEN place.formattedAddress
                               ELSE place.displayName]

\* matches of the text search drawn
GeocodeResults ==
    {<<>>,
     <<[location |-> "search", formattedAddress |-> "1 Main St", displayName |-> "Main"]>>,
     <<[location |-> "search", formattedAddress |-> "", displayName |-> "Main"],
       [location |-> "default", formattedAddress |-> "2 Side St", displayName |-> "Side"]>>}

\* faulty variant: the filter value is sent as it is
requestTypeMutant(locationType) == locationType

\* type: locationType === 'all' || !locationType ? 'cafe' : locationType
requestType(locationType) == IF locationType = "all" THEN "cafe" ELSE locationType

\* raw result lists the collaborator answers with
SampleResults ==
    {<<>>,
     <<[types |-> {"cafe"}, name |-> <<"Central", "Library">>, rating |-> 42,
        hasDescriptions |-> TRUE, weekdayDescriptions |-> WeekTable,
        popularity |-> -1, dineIn |-> "absent", takeout |-> "absent",
        location |-> [present |-> TRUE, latitude |-> 1, longitude |-> 1]]>>,
     <<[types |-> {"library"}, name |-> <<"Public", "Library", "Branch">>, rating |-> 42,
        hasDescriptions |-> TRUE, weekdayDescriptions |-> EveningTable,
        popularity |-> -1, dineIn |-> "absent", takeout |-> "absent",
        location |-> [present |-> TRUE, latitude |-> 8341, longitude |-> 1]],
       [types |-> {"coffee_shop"}, name |-> <<"Central", "Library">>, rating |-> 30,
        hasDescriptions |-> TRUE, weekdayDescriptions |-> WeekTable,
        popularity |-> -1, dineIn |-> "true", takeout |-> "true",
        location |-> [present |-> TRUE, latitude |-> 1, longitude |-> 1]]>>}

\* data.locations of a successful response
ResponseLists ==
    {assemble(results, 1, [lat |-> 1, lng |-> 1], 12, [i \in 1..Len(results) |-> 49]) :
        results \in SampleResults}

\* filter === 'all' ? locations : locations.filter(loc => loc.type === filter)
filteredLocations ==
    IF filter = "all" THEN locations
    ELSE SelectSeq(locations, LAMBDA l : l.type = filter)

\* faulty variant: the hours filter is applied in 'now' mode too
timeFilteredLocationsMutant ==
    SelectSeq(filteredLocations, LAMBDA l : isOpenAtTime(l, selectedDate, selectedHour))

\* the list handed to the map and to the list cards
timeFilteredLocations ==
    IF timeMode = "now" THEN filteredLocations
    ELSE SelectSeq(filteredLocations, LAMBDA l : isOpenAtTime(l, selectedDate, selectedHour))

\* faulty variant: only the distance is hidden
cardLocationMutant(location) ==
    [location EXCEPT !.distance = IF hasRealLocation THEN @ ELSE -1]

\* the location prop of a LocationCard; -1 is undefined
cardLocation(location) ==
    [location EXCEPT !.distance = IF hasRealLocation THEN @ ELSE -1,
                     !.walkingTime = IF hasRealLocation THEN @ ELSE -1]

\* the LocationCards rendered; none while loading or while the details of a
\* selected location are shown
cards ==
    IF loading \/ selectedLocation # <<>> THEN <<>>
    ELSE [i \in 1..Len(timeFilteredLocations) |-> cardLocation(timeFilteredLocations[i])]

\* days and hours picked in the selects, of [0..6] and 6..23
SelectableDays == {0, 1}
SelectableHours == {12, 17}

\* setLoading(true) and the POST of requests (point, type) pairs; includedTypes
\* is what the handler asks the place-search collaborator for
fetchNearbyPlaces(reqs) ==
    /\ loading' = TRUE
    /\ inflight' = inflight \cup
          {[id |-> issued + n, point |-> reqs[n][1], type |-> requestType(reqs[n][2]),
            includedTypes |-> includedTypes(requestType(reqs[n][2]))] :
              n \in 1..Len(reqs)}
    /\ issued' = issued + Len(reqs)

Init ==
    /\ locations = <<>>
    /\ loading = FALSE
    /\ filter = "all"
    /\ userLocation = "default"
    /\ hasRealLocation = FALSE
    /\ inflight = {}
    /\ issued = 0
    /\ mounted = FALSE
    /\ geoPending = FALSE
    /\ lastOutcome = "none"
    /\ timeMode = "now"
    /\ selectedDate = 0
    /\ selectedHour = 12
    /\ selectedLocation = <<>>
    /\ locationsFor = NoRequest
    /\ geocoding = FALSE
    /\ lastSearch = [outcome |-> "none", matches |-> <<>>, point |-> "none", address |-> "none"]
    /\ isUserDraggingRef = FALSE
    /\ fetchTimeoutRef = 0
    /\ timers = {}
    /\ timersSet = 0
    /\ lastMoveEnd = "none"
    /\ HoursIdle
    /\ ServeIdle
    /\ ProbeIdle

\* first render: the mount effect (geolocation) and the [filter] effect
Mount(geolocation) ==
    /\ ~mounted
    /\ mounted' = TRUE
    /\ IF geolocation
       THEN /\ geoPending' = TRUE
            /\ fetchNearbyPlaces(<< <<userLocation, filter>> >>)
       ELSE /\ geoPending' = FALSE
            /\ fetchNearbyPlaces(<< <<userLocation, filter>>, <<userLocation, filter>> >>)
    /\ hasRealLocation' = FALSE
    /\ UNCHANGED <<locations, filter, userLocation, lastOutcome, timeVars, hoursVars, serveVars,
                   probeVars, selectedLocation, searchVars, mapVars, locationsFor>>

\* getCurrentPosition success callback; filter is the value of the first render
GeolocationSuccess ==
    /\ geoPending
    /\ issued < MaxFetches
    /\ geoPending' = FALSE
    /\ userLocation' = "gps"
    /\ hasRealLocation' = TRUE
    /\ fetchNearbyPlaces(<< <<"gps", "all">> >>)
    /\ UNCHANGED <<locations, filter, mounted, lastOutcome, timeVars, hoursVars, serveVars,
                   probeVars, selectedLocation, searchVars, mapVars, locationsFor>>

\* getCurrentPosition error callback; userLocation and filter of the first render
GeolocationError ==
    /\ geoPending
    /\ issued < MaxFetches
    /\ geoPending' = FALSE
    /\ hasRealLocation' = FALSE
    /\ fetchNearbyPlaces(<< <<"default", "all">> >>)
    /\ UNCHANGED <<locations, filter, userLocation, mounted, lastOutcome, timeVars, hoursVars, serveVars,
                   probeVars, selectedLocation, searchVars, mapVars, locationsFor>>

\* a filter button; the [filter] effect fetches when the value changed
SetFilter(f) ==
    /\ mounted
    /\ f # filter
    /\ issued < MaxFetches
    /\ filter' = f
    /\ fetchNearbyPlaces(<< <<userLocation, f>> >>)
    /\ UNCHANGED <<locations, userLocation, hasRealLocation, mounted, geoPending,
                   lastOutcome, timeVars, hoursVars, serveVars,
                   probeVars, selectedLocation, searchVars, mapVars, locationsFor>>

\* onLocationSelect of the SearchBox
handleSearchLocationSelect(point) ==
    /\ userLocation' = point
    /\ hasRealLocation' = FALSE
    /\ fetchNearbyPlaces(<< <<point, filter>> >>)

\* the SearchBox calls onLocationSelect with a geocoded point
onLocationSelect(point) ==
    /\ mounted
    /\ issued < MaxFetches
    /\ handleSearchLocationSelect(point)
    /\ UNCHANGED <<locations, filter, mounted, geoPending, lastOutcome, timeVars,
                   selectedLocation, locationsFor, searchVars, mapVars, hoursVars,
                   serveVars, probeVars>>

\* handleSearch up to the request; the input and the button are disabled
\* while a geocode request is awaiting its response
handleSearch(searchQuery) ==
    /\ mounted
    /\ ~geocoding
    /\ IF searchQuery = "" THEN
          /\ lastSearch' = [outcome |-> "empty", matches |-> <<>>, point |-> "none",
                            address |-> "none"]
          /\ UNCHANGED geocoding
       ELSE
          /\ geocoding' = TRUE
          /\ UNCHANGED lastSearch
    /\ UNCHANGED <<locations, loading, filter, userLocation, hasRealLocation, inflight,
                   issued, mounted, geoPending, lastOutcome, timeVars, selectedLocation,
                   locationsFor, mapVars, hoursVars, serveVars, probeVars>>

\* handleSearch from the response on; hasKey, apiOk and matches are the
\* geocode handler's key, the text search's status and its matches, thrown a
\* fetch or json() that throws
SearchResponds(hasKey, apiOk, matches, thrown) ==
    LET response == geocode(hasKey, apiOk, matches) IN
    /\ geocoding
    /\ geocoding' = FALSE
    /\ IF thrown THEN
          /\ lastSearch' = [outcome |-> "throw", matches |-> <<>>, point |-> "none",
                            address |-> "none"]
          /\ UNCHANGED <<userLocation, hasRealLocation, loading, inflight, issued>>
       ELSE IF ~response.ok \/ response.error THEN
          /\ lastSearch' = [outcome |-> "error", matches |-> matches, point |-> "none",
                            address |-> "none"]
          /\ UNCHANGED <<userLocation, hasRealLocation, loading, inflight, issued>>
       ELSE
          /\ issued < MaxFetches
          /\ handleSearchLocationSelect(response.point)
          /\ lastSearch' = [outcome |-> "ok", matches |-> matches, point |-> response.point,
                            address |-> response.formattedAddress]
    /\ UNCHANGED <<locations, filter, mounted, geoPending, lastOutcome, timeVars,
                   selectedLocation, locationsFor, mapVars, hoursVars, serveVars,
                   probeVars>>

\* faulty variant: the record as overlaid for the card is selected
handleLocationClickMutant(i) ==
    /\ mounted
    /\ i \in 1..Len(timeFilteredLocations)
    /\ selectedLocation' = <<cardLocation(timeFilteredLocations[i])>>
    /\ UNCHANGED <<locations, loading, filter, userLocation, hasRealLocation, inflight,
                   issued, mounted, geoPending, lastOutcome, timeVars, locationsFor,
                   searchVars, mapVars, hoursVars, serveVars, probeVars>>

\* a list card's onClick, or a map marker: setSelectedLocation(location)
handleLocationClick(i) ==
    /\ mounted
    /\ i \in 1..Len(timeFilteredLocations)
    /\ selectedLocation' = <<timeFilteredLocations[i]>>
    /\ UNCHANGED <<locations, loading, filter, userLocation, hasRealLocation, inflight,
                   issued, mounted, geoPending, lastOutcome, timeVars, locationsFor,
                   searchVars, mapVars, hoursVars, serveVars, probeVars>>

\* the View All button: setSelectedLocation(null)
ViewAll ==
    /\ selectedLocation # <<>>
    /\ selectedLocation' = <<>>
    /\ UNCHANGED <<locations, loading, filter, userLocation, hasRealLocation, inflight,
                   issued, mounted, geoPending, lastOutcome, timeVars, locationsFor,
                   searchVars, mapVars, hoursVars, serveVars, probeVars>>

\* the response has no error: setLocations(data.locations || []); finally
FetchSucceeds(r, list) ==
    /\ r \in inflight
    /\ inflight' = inflight \ {r}
    /\ locations' = list
    /\ loading' = FALSE
    /\ lastOutcome' = "ok"
    /\ locationsFor' = r
    /\ UNCHANGED <<filter, userLocation, hasRealLocation, issued, mounted, geoPending,
                   timeVars, hoursVars, serveVars,
                   probeVars, selectedLocation, searchVars, mapVars>>

\* data.error is set (return), or fetch / json() throws (catch); finally
FetchFails(r, how) ==
    /\ r \in inflight
    /\ inflight' = inflight \ {r}
    /\ loading' = FALSE
    /\ lastOutcome' = how
    /\ UNCHANGED <<locations, filter, userLocation, hasRealLocation, issued, mounted,
                   geoPending, timeVars, hoursVars, serveVars,
                   probeVars, selectedLocation, searchVars, mapVars, locationsFor>>

\* the Now button
SelectNow ==
    /\ mounted
    /\ timeMode' = "now"
    /\ UNCHANGED <<locations, loading, filter, userLocation, hasRealLocation, inflight,
                   issued, mounted, geoPending, lastOutcome, selectedDate, selectedHour,
                   hoursVars, serveVars, probeVars, selectedLocation, searchVars, mapVars, locationsFor>>

\* the day Select: setSelectedDate(parseInt(v)); setTimeMode('later')
SelectDay(day) ==
    /\ mounted
    /\ selectedDate' = day
    /\ timeMode' = "later"
    /\ UNCHANGED <<locations, loading, filter, userLocation, hasRealLocation, inflight,
                   issued, mounted, geoPending, lastOutcome, selectedHour,
                   hoursVars, serveVars, probeVars, selectedLocation, searchVars, mapVars, locationsFor>>

\* the hour Select: setSelectedHour(parseInt(v)); setTimeMode('later')
SelectHour(hour) ==
    /\ mounted
    /\ selectedHour' = hour
    /\ timeMode' = "later"
    /\ UNCHANGED <<locations, loading, filter, userLocation, hasRealLocation, inflight,
                   issued, mounted, geoPending, lastOutcome, selectedDate,
                   hoursVars, serveVars, probeVars, selectedLocation, searchVars, mapVars, locationsFor>>

\* the map's dragstart handler
onUserDragStart ==
    /\ mounted
    /\ ~isUserDraggingRef
    /\ isUserDraggingRef' = TRUE
    /\ UNCHANGED <<locations, loading, filter, userLocation, hasRealLocation, inflight,
                   issued, mounted, geoPending, lastOutcome, timeVars, selectedLocation,
                   locationsFor, searchVars, fetchTimeoutRef, timers, timersSet,
                   lastMoveEnd, hoursVars, serveVars, probeVars>>

\* faulty variant: the pending timer is not cleared
handleMapMovedMutant(centre) ==
    /\ mounted
    /\ IF ~isUserDraggingRef THEN UNCHANGED <<fetchTimeoutRef, timers, timersSet, lastMoveEnd>>
       ELSE /\ timersSet < MaxTimers
            /\ lastMoveEnd' = centre
            /\ timers' = timers \cup {[id |-> timersSet + 1, centre |-> centre]}
            /\ fetchTimeoutRef' = timersSet + 1
            /\ timersSet' = timersSet + 1
    /\ UNCHANGED <<locations, loading, filter, userLocation, hasRealLocation, inflight,
                   issued, mounted, geoPending, lastOutcome, timeVars, selectedLocation,
                   locationsFor, searchVars, isUserDraggingRef, hoursVars, serveVars,
                   probeVars>>

\* the map's moveend handler reporting the centre: handleMapMoved up to
\* setTimeout; clearTimeout drops the timer fetchTimeoutRef names
handleMapMoved(centre) ==
    /\ mounted
    /\ IF ~isUserDraggingRef THEN UNCHANGED <<fetchTimeoutRef, timers, timersSet, lastMoveEnd>>
       ELSE /\ timersSet < MaxTimers
            /\ lastMoveEnd' = centre
            /\ timers' = {t \in timers : t.id # fetchTimeoutRef}
                            \cup {[id |-> timersSet + 1, centre |-> centre]}
            /\ fetchTimeoutRef' = timersSet + 1
            /\ timersSet' = timersSet + 1
    /\ UNCHANGED <<locations, loading, filter, userLocation, hasRealLocation, inflight,
                   issued, mounted, geoPending, lastOutcome, timeVars, selectedLocation,
                   locationsFor, searchVars, isUserDraggingRef, hoursVars, serveVars,
                   probeVars>>

\* the timer's callback, 500 ms after the moveend that set it; the handler
\* is the one of the first render, whose filter is 'all'
TimerFires(t) ==
    /\ t \in timers
    /\ issued < MaxFetches
    /\ timers' = timers \ {t}
    /\ userLocation' = t.centre
    /\ hasRealLocation' = FALSE
    /\ fetchNearbyPlaces(<< <<t.centre, "all">> >>)
    /\ isUserDraggingRef' = FALSE
    /\ lastMoveEnd' = "none"
    /\ UNCHANGED <<locations, filter, mounted, geoPending, lastOutcome, timeVars,
                   selectedLocation, locationsFor, searchVars, fetchTimeoutRef, timersSet,
                   hoursVars, serveVars, probeVars>>

\* centres the user drags the map to
MapCentres == {"mapA", "mapB"}

\* mount, geolocation, filter buttons and the fetches' responses
Fetching ==
    \/ \E g \in BOOLEAN : Mount(g)
    \/ GeolocationSuccess
    \/ GeolocationError
    \/ \E f \in Filters : SetFilter(f)
    \/ \E r \in inflight, list \in ResponseLists : FetchSucceeds(r, list)
    \/ \E r \in inflight, how \in {"error", "throw"} : FetchFails(r, how)

\* the page with its search box
Next ==
    \/ Fetching
    \/ \E searchQuery \in {"", "address"} : handleSearch(searchQuery)
    \/ \E hasKey \in BOOLEAN, apiOk \in BOOLEAN, matches \in GeocodeResults,
          thrown \in BOOLEAN :
          SearchResponds(hasKey, apiOk, matches, thrown)

Spec == Init /\ [][Next]_vars

\* the page with its map
NextMap ==
    \/ Fetching
    \/ onUserDragStart
    \/ \E centre \in MapCentres \cup {userLocation} : handleMapMoved(centre)
    \/ \E t \in timers : TimerFires(t)

SpecMap == Init /\ [][NextMap]_vars

\* the page with its list panel: the time selection, the cards and the
\* details of a selected location
NextView ==
    \/ Fetching
    \/ onLocationSelect("search")
    \/ SelectNow
    \/ \E day \in SelectableDays : SelectDay(day)
    \/ \E hour \in SelectableHours : SelectHour(hour)
    \/ \E i \in 1..MaxPlaces : handleLocationClick(i)
    \/ ViewAll

SpecView == Init /\ [][NextView]_vars

(***************************************************************************)
(* Claims about isOpenAtTime                                               *)
(***************************************************************************)
\* the weekday the call was about
TargetDay == dayNames[((today + dayOffset) % 7) + 1]

HasTable == loc.openingHours.hasDescriptions
Descs == loc.openingHours.weekdayDescriptions

\* the entries of the table whose prefix is the target weekday
TargetEntries == {i \in 1..Len(Descs) : Descs[i][1] = Day(TargetDay)}

\* the entry the call looked at
MatchedEntry == Descs[Min(TargetEntries)]

SaysClosed(e) == \E i \in 1..Len(e) : e[i] = Word("Closed")

\* "H:MM AM/PM - H:MM AM/PM" occurs in the text
HasClockRange(e) ==
    \E i \in 1..(Len(e) - 2) : e[i].k = "time" /\ e[i+1].k = "dash" /\ e[i+2].k = "time"

FirstClockRange(e) ==
    Min({i \in 1..(Len(e) - 2) : e[i].k = "time" /\ e[i+1].k = "dash" /\ e[i+2].k = "time"})

\* 12 AM -> 0, 12 PM -> 12, otherwise add 12 for PM
Hour24(t) == (t.h % 12) + (IF t.p = "PM" THEN 12 ELSE 0)

\* C1 (as claimed): the hours table is present but has no entry for the
\* target weekday => isOpenAtTime returns true at every hour 0..23.
C1_MissingWeekdayOpen ==
    (called /\ HasTable /\ TargetEntries = {}) => \A h \in Hours : openAt[h]

\* C2: the target weekday's entry holds a clock range "o - c" => for every
\* hour 0..23 the result is true iff Hour24(o) <= hour < Hour24(c); for
\* "Tuesday: 9:00 AM - 5:00 PM" it is false at 8, true at 9 and 16, false at 17.
C2_IntervalRule ==
    (called /\ HasTable /\ TargetEntries # {}) =>
        LET e == MatchedEntry IN
        /\ HasClockRange(e) =>
              LET i == FirstClockRange(e) IN
              \A h \in Hours : openAt[h] <=> (Hour24(e[i]) <= h /\ h < Hour24(e[i+2]))
        /\ (e = <<Day("Tuesday"), Time(9, "AM"), Dash, Time(5, "PM")>>) =>
              (~openAt[8] /\ openAt[9] /\ openAt[16] /\ ~openAt[17])

C2_Witness ==
    /\ called /\ HasTable /\ TargetEntries # {}
    /\ MatchedEntry = <<Day("Tuesday"), Time(9, "AM"), Dash, Time(5, "PM")>>
    /\ openAt[16] /\ ~openAt[17]

\* C3: the entry matched for the target weekday says Closed => the result
\* is false at every hour 0..23, whatever the other entries are.
C3_ClosedDay ==
    (called /\ HasTable /\ TargetEntries # {} /\ SaysClosed(MatchedEntry)) =>
        \A h \in Hours : ~openAt[h]

C3_Witness ==
    /\ called /\ HasTable /\ TargetEntries # {} /\ SaysClosed(MatchedEntry)
    /\ Len(Descs) > 1
    /\ \A h \in Hours : ~openAt[h]

\* C4: the target weekday's entry exists, does not say Closed and holds no
\* two-clock-time range => the result is true at every hour 0..23.
C4_UnparseableOpen ==
    (called /\ HasTable /\ TargetEntries # {}
        /\ ~SaysClosed(MatchedEntry) /\ ~HasClockRange(MatchedEntry)) =>
        \A h \in Hours : openAt[h]

C4_Witness ==
    /\ called /\ HasTable /\ TargetEntries # {}
    /\ MatchedEntry = <<Day(TargetDay), Bare(1), Dash, Time(5, "PM")>>
    /\ \A h \in Hours : openAt[h]

(***************************************************************************)
(* Claims about the fetch-places filter and assembly                       *)
(***************************************************************************)
Answered == served.done /\ ~served.error

\* positions of the output records assembled from raw record i
OutputOf(i) == {j \in 1..Len(served.locations) : served.locations[j].id = i}

NameHas(p, kw) == nameIncludes(toLowerCase(p.name), kw)

\* the public-library legitimacy check
PublicLibraryLegit(p) ==
    /\ p.types \cap {"university", "school", "secondary_school", "primary_school", "college"} = {}
    /\ \A kw \in {"college", "university", "school", "academy", "institute", "campus"} : ~NameHas(p, kw)
    /\ \E kw \in {"public", "city", "county", "town", "municipal", "branch"} : NameHas(p, kw)

UsableCoordinates(p) ==
    p.location.present /\ p.location.latitude # 0 /\ p.location.longitude # 0

\* C6 (as claimed): every raw record tagged library that fails the
\* public-library legitimacy check is in the output with kind cafe, never
\* dropped and never output with kind library.
C6_ReclassifiedAsCafe ==
    Answered =>
        \A i \in 1..Len(places) :
            ("library" \in places[i].types /\ ~PublicLibraryLegit(places[i])) =>
                /\ OutputOf(i) # {}
                /\ \A j \in OutputOf(i) : served.locations[j].type = "cafe"

\* C6 (amended): every raw record tagged library that fails the
\* public-library legitimacy check is dropped by the filter and absent from
\* the output; it is neither re-classified as cafe nor output as library.
C6_FailedLibraryDropped ==
    Answered =>
        \A i \in 1..Len(places) :
            ("library" \in places[i].types /\ ~PublicLibraryLegit(places[i])) =>
                (i \notin filtered /\ OutputOf(i) = {})

C6_Witness ==
    /\ Answered
    /\ \E i \in 1..Len(places) :
        /\ places[i].types = {"library", "cafe"}
        /\ places[i].name = <<"Central", "Library">>
        /\ places[i].hasDescriptions /\ places[i].rating = 42
        /\ UsableCoordinates(places[i])
        /\ places[i].dineIn = "true"
        /\ OutputOf(i) = {}
    /\ Len(served.locations) > 0

\* the records C7 is about
LibraryOnly(p) ==
    /\ "library" \in p.types
    /\ p.hasDescriptions
    /\ p.rating >= 30
    /\ p.types \cap {"cafe", "coffee_shop", "bakery"} = {}

\* C7: a record tagged library (hours text, rating >= 3.0, no cafe /
\* coffee_shop / bakery tag) is retained by the filter iff it passes the
\* legitimacy check; when assembled its kind is library (and it is
\* assembled whenever it carries usable coordinates); a record failing the
\* check is absent from the output.
C7_LibraryLegitimacy ==
    Answered =>
        \A i \in 1..Len(places) :
            LibraryOnly(places[i]) =>
                /\ (i \in filtered) <=> PublicLibraryLegit(places[i])
                /\ \A j \in OutputOf(i) : served.locations[j].type = "library"
                /\ ~PublicLibraryLegit(places[i]) => OutputOf(i) = {}
                /\ (PublicLibraryLegit(places[i]) /\ UsableCoordinates(places[i]))
                      => Cardinality(OutputOf(i)) = 1

C7_Witness ==
    /\ Answered
    /\ \E i \in 1..Len(places) :
        /\ places[i].types = {"library"}
        /\ places[i].name = <<"Public", "Library", "Branch">>
        /\ places[i].rating = 42 /\ places[i].hasDescriptions
        /\ \E j \in OutputOf(i) : served.locations[j].type = "library"

\* C8: every output record comes from a raw record that carried weekly
\* opening-hours text; a record without it is never in the output.
C8_HoursRequired ==
    Answered =>
        /\ \A j \in 1..Len(served.locations) :
              /\ served.locations[j].id \in 1..Len(places)
              /\ places[served.locations[j].id].hasDescriptions
              /\ served.locations[j].openingHours.hasDescriptions
        /\ \A i \in 1..Len(places) : ~places[i].hasDescriptions => OutputOf(i) = {}

C8_Witness ==
    /\ Answered
    /\ \E i \in 1..Len(places) :
        /\ ~places[i].hasDescriptions
        /\ places[i].types = {"cafe"} /\ places[i].rating = 42
        /\ places[i].dineIn = "true" /\ places[i].takeout = "absent"
        /\ UsableCoordinates(places[i])
        /\ OutputOf(i) = {}
    /\ Len(served.locations) > 0

\* C9: every output record has a rating >= 3.0; records without a rating
\* and records rated below 3.0 are dropped.
C9_RatingFloor ==
    Answered =>
        /\ \A j \in 1..Len(served.locations) :
              /\ served.locations[j].rating >= 30
              /\ served.locations[j].rating = places[served.locations[j].id].rating
        /\ \A i \in 1..Len(places) :
              (places[i].rating = -1 \/ places[i].rating < 30) => OutputOf(i) = {}

C9_Witness ==
    /\ Answered
    /\ \E i \in 1..Len(places) :
        /\ places[i].rating = 29
        /\ places[i].hasDescriptions /\ places[i].types = {"cafe"}
        /\ places[i].dineIn = "true" /\ UsableCoordinates(places[i])
        /\ OutputOf(i) = {}
    /\ Len(served.locations) > 0

\* the records C10 is about: tagged cafe or coffee_shop and past the hours,
\* rating and library rules
CafePastEarlierRules(p) ==
    /\ p.types \cap {"cafe", "coffee_shop"} # {}
    /\ p.hasDescriptions
    /\ p.rating >= 30
    /\ ("library" \in p.types) => PublicLibraryLegit(p)

\* C10: such a record is dropped by the filter iff (dineIn is explicitly
\* false and takeout explicitly true) or (it is tagged fast_food_restaurant
\* and not cafe); in every other case, dineIn or takeout absent included,
\* it is kept.
C10_CafeExclusion ==
    Answered =>
        \A i \in 1..Len(places) :
            CafePastEarlierRules(places[i]) =>
                ((i \notin filtered) <=>
                    \/ (places[i].dineIn = "false" /\ places[i].takeout = "true")
                    \/ ("fast_food_restaurant" \in places[i].types /\ "cafe" \notin places[i].types))

C10_Witness ==
    /\ Answered
    /\ \E i \in 1..Len(places) :
        /\ places[i].types = {"cafe"} /\ places[i].rating = 42 /\ places[i].hasDescriptions
        /\ places[i].dineIn = "false" /\ places[i].takeout = "true"
        /\ i \notin filtered /\ OutputOf(i) = {}
    /\ \E i \in 1..Len(places) :
        /\ places[i].types = {"cafe"} /\ places[i].dineIn = "absent"
        /\ i \in filtered

(***************************************************************************)
(* Claims about the Index page                                             *)
(***************************************************************************)
\* C5 (as claimed): after a place fetch whose response carries an error
\* description, or whose request throws, the stored location list is empty;
\* it never still holds the records of an earlier successful fetch.
C5_FailedFetchEmpties ==
    lastOutcome \in {"error", "throw"} => locations = <<>>

\* raw records a location is assembled from: those the filter retains
\* whose coordinates are present and non-zero
Assembled == {i \in filtered : UsableCoordinates(places[i])}

\* the output lists its records in the order of the raw results
InInputOrder ==
    \A j, k \in 1..Len(served.locations) :
        j < k => served.locations[j].id < served.locations[k].id

\* C11 (as claimed): every raw record that passes the filter yields exactly
\* one output record, in input order; the output is as long as the number
\* of records passing the filter.
C11_OnePerSurvivor ==
    Answered =>
        /\ Len(served.locations) = Cardinality(filtered)
        /\ \A i \in filtered : Cardinality(OutputOf(i)) = 1
        /\ InInputOrder

\* C11 (amended): every raw record that passes the filter and carries
\* present, non-zero coordinates yields exactly one output record, in input
\* order; a surviving record without such coordinates yields none, so the
\* output is as long as the number of surviving records with coordinates.
C11_OnePerLocatedSurvivor ==
    Answered =>
        /\ Len(served.locations) = Cardinality(Assembled)
        /\ \A i \in Assembled : Cardinality(OutputOf(i)) = 1
        /\ \A i \in 1..Len(places) : i \notin Assembled => OutputOf(i) = {}
        /\ InInputOrder

C11_Witness ==
    /\ Answered
    /\ filtered = {1, 2}
    /\ Len(served.locations) = 2
    /\ served.locations[1].id = 1

\* C12: for a popularity p in 0..100 getBusynessFromPopularity gives low
\* when p < 30, moderate when 30 <= p <= 69 and high when p >= 70; a
\* missing popularity gives low.
C12_BusynessThresholds ==
    score.call = "busyness" =>
        /\ score.popularity = -1 => score.busyness = "low"
        /\ score.popularity \in 0..29 => score.busyness = "low"
        /\ score.popularity \in 30..69 => score.busyness = "moderate"
        /\ score.popularity \in 70..100 => score.busyness = "high"

C12_Witness ==
    score.call = "busyness" /\ score.popularity = 69 /\ score.busyness = "moderate"

\* C15: for a base draw b in 20..79, an hour and a rating the estimate is
\* min(100, min(100, b + 30 if the hour is in 8..10, 12..14 or 17..19,
\* else b) + (20 if rating > 4.3 else 0)), an integer in 20..100.
C15_EstimateRule ==
    score.call = "simulate" =>
        LET b == draw.base
            peak == draw.hour \in {8, 9, 10, 12, 13, 14, 17, 18, 19}
            afterPeak == IF peak THEN (IF b + 30 > 100 THEN 100 ELSE b + 30) ELSE b
            boost == IF draw.rating > 43 THEN 20 ELSE 0
            expected == IF afterPeak + boost > 100 THEN 100 ELSE afterPeak + boost
        IN  /\ score.popularity = expected
            /\ score.popularity \in 20..100

C15_Witness ==
    /\ score.call = "simulate"
    /\ draw.base = 79 /\ draw.hour = 12 /\ draw.rating = 44
    /\ score.popularity = 100

\* C13: in every record the handler assembles the pair (busyness,
\* likelihood) is (low, 85), (moderate, 50) or (high, 20).
C13_BusynessLikelihoodCoupling ==
    Answered =>
        \A j \in 1..Len(served.locations) :
            <<served.locations[j].busyness, served.locations[j].likelihood>>
                \in {<<"low", 85>>, <<"moderate", 50>>, <<"high", 20>>}

C13_Witness ==
    /\ Answered
    /\ \E j \in 1..Len(served.locations) :
          served.locations[j].busyness = "high" /\ served.locations[j].likelihood = 20
    /\ \E j \in 1..Len(served.locations) :
          served.locations[j].busyness = "low" /\ served.locations[j].likelihood = 85

\* C14 (as claimed): when the raw record declares a popularity p the
\* assembled record's busyness is the tier of p (low below 30, moderate
\* below 70, else high) and its likelihood the value mapped from that tier;
\* the drawn estimate plays no part.
C14_DeclaredPopularityHonoured ==
    Answered =>
        \A j \in 1..Len(served.locations) :
            LET p == places[served.locations[j].id].popularity
                tier == IF p < 30 THEN "low" ELSE IF p < 70 THEN "moderate" ELSE "high"
            IN  p # -1 =>
                  /\ served.locations[j].busyness = tier
                  /\ served.locations[j].likelihood =
                        (IF tier = "low" THEN 85 ELSE IF tier = "moderate" THEN 50 ELSE 20)

\* Math.ceil(metres / 83.33) of a whole number of metres
CeilMinutes(metres) == (metres * 100 + 8332) \div 8333

\* C18 (as claimed): walkingTime is ceil(distance / 83.33) of the record's
\* own distance field, the rounded metres.
C18_WalkingFromDistanceField ==
    Answered =>
        \A j \in 1..Len(served.locations) :
            served.locations[j].walkingTime = CeilMinutes(served.locations[j].distance)

\* C18 (amended): walkingTime is ceil(d / 83.33) of the unrounded distance
\* d between the query point and the place, of which the distance field is
\* the rounding to whole metres; it is within one minute of
\* ceil(distance / 83.33).
C18_WalkingFromExactDistance ==
    Answered =>
        \A j \in 1..Len(served.locations) :
            LET l == served.locations[j]
                d == Abs(places[l.id].location.latitude - AssembleQuery.lat)
            IN  /\ l.distance * 100 - 50 <= d /\ d < l.distance * 100 + 50
                /\ l.walkingTime * 8333 >= d
                /\ (l.walkingTime - 1) * 8333 < d
                /\ Abs(l.walkingTime - CeilMinutes(l.distance)) <= 1

C18_Witness ==
    /\ Answered
    /\ \E j \in 1..Len(served.locations) :
          served.locations[j].distance = 83 /\ served.locations[j].walkingTime = 2

\* the weekday getPredictedAvailability predicts for is Saturday or Sunday
TargetWeekend == (curve.today + curve.dayOffset) % 7 \in {0, 6}

\* the likelihoods before any jitter
Unjittered ==
    IF TargetWeekend THEN <<90, 85, 45, 75, 65, 40>> ELSE <<90, 70, 30, 60, 50, 40>>

\* C16: getPredictedAvailability returns six entries for the hours 8, 10,
\* 12, 14, 16, 18 in that order; for dayOffset 0 the likelihoods are
\* (90, 70, 30, 60, 50, 40) on a weekday and (90, 85, 45, 75, 65, 40) on a
\* weekend; for dayOffset > 0 each likelihood is an integer in 20..95 within
\* 5 of the un-jittered value clamped to 20..95.
C16_PredictedCurve ==
    availability # <<>> =>
        /\ Len(availability) = 6
        /\ [i \in 1..6 |-> availability[i].hour] = <<8, 10, 12, 14, 16, 18>>
        /\ curve.dayOffset = 0 =>
              [i \in 1..6 |-> availability[i].likelihood] = Unjittered
        /\ curve.dayOffset > 0 =>
              \A i \in 1..6 :
                  LET clamped == IF Unjittered[i] > 95 THEN 95
                                 ELSE IF Unjittered[i] < 20 THEN 20 ELSE Unjittered[i]
                  IN  /\ availability[i].likelihood \in 20..95
                      /\ Abs(availability[i].likelihood - clamped) <= 5

C16_Witness ==
    /\ availability # <<>>
    /\ curve.dayOffset > 0
    /\ TargetWeekend
    /\ availability[1].likelihood = 95
    /\ availability[2].likelihood = 80

\* C17: distance and walkingTime are both present or both absent, in every
\* record the handler returned (where both are numbers) and in every record
\* handed to a list card.
C17_DistanceWithWalkingTime ==
    /\ \A j \in 1..Len(locations) :
          locations[j].distance >= 0 /\ locations[j].walkingTime >= 0
    /\ \A j \in 1..Len(cards) :
          (cards[j].distance = -1) <=> (cards[j].walkingTime = -1)

C17_Witness ==
    /\ ~hasRealLocation
    /\ Len(cards) = 2
    /\ cards[1].distance = -1 /\ cards[1].walkingTime = -1
    /\ locations[1].distance = 83 /\ locations[1].walkingTime = 2

\* positions of the stored list that pass the venue-kind filter
KindKept == {j \in 1..Len(locations) : filter = "all" \/ locations[j].type = filter}

\* positions of the stored list on display: of the kind selected and, in
\* 'later' mode, open at the selected day and hour
Displayed ==
    {j \in KindKept :
        timeMode = "now" \/ isOpenAtTime(locations[j], selectedDate, selectedHour)}

\* the sequence s lists the records of the stored list at the positions J,
\* in the stored order
IsSubList(s, J) ==
    /\ Len(s) = Cardinality(J)
    /\ \A j \in J :
          s[Cardinality({k \in J : k <= j})] = locations[j]

\* C19: a time selection ('now', a day or an hour) issues no fetch and
\* leaves the stored list and the query point unchanged; the list on display
\* is the sub-list of the kind-filtered stored list for which isOpenAtTime
\* holds, and the whole kind-filtered list in 'now' mode.
C19_TimeSelectionPostFilter ==
    /\ [](IsSubList(timeFilteredLocations, Displayed))
    /\ [][timeVars' # timeVars =>
            UNCHANGED <<locations, userLocation, issued, inflight, loading>>]_vars

C19_Witness ==
    /\ timeMode = "later"
    /\ Len(filteredLocations) = 2
    /\ Len(timeFilteredLocations) = 1
    /\ issued = 2 /\ inflight = {}

\* C20 (as claimed): switching the venue-kind filter never issues a fetch.
C20_KindSelectionNeverFetches ==
    [][filter' # filter => UNCHANGED <<issued, inflight>>]_vars

\* C20 (amended): switching the venue-kind filter issues exactly one fetch,
\* for the current query point and the kind selected (cafe for all), and
\* leaves the stored list as it is until a response arrives; the list is
\* re-filtered by kind at once.
C20_KindSelectionRefetches ==
    /\ [](IsSubList(filteredLocations, KindKept))
    /\ [][filter' # filter =>
            /\ issued' = issued + 1
            /\ inflight' = inflight \cup
                  {[id |-> issued', point |-> userLocation,
                    type |-> IF filter' = "all" THEN "cafe" ELSE filter',
                    includedTypes |-> IF filter' = "library" THEN {"library"}
                                      ELSE {"cafe", "coffee_shop"}]}
            /\ loading'
            /\ UNCHANGED <<locations, userLocation>>]_vars

C20_Witness ==
    /\ filter = "library"
    /\ Len(locations) = 2
    /\ Len(filteredLocations) = 1
    /\ \E r \in inflight : r.type = "library"

\* the clock range of the entry the call looked at
Opens  == MatchedEntry[FirstClockRange(MatchedEntry)]
Closes == MatchedEntry[FirstClockRange(MatchedEntry) + 2]

\* what the claim gives for clock hour h in 1..12 with marker p
Claimed24(h, p) ==
    IF h = 12 THEN (IF p = "AM" THEN 0 ELSE 12)
    ELSE IF p = "PM" THEN h + 12 ELSE h

\* C22: in isOpenAtTime a clock hour h in 1..12 with its marker converts as
\* 12 AM -> 0, 12 PM -> 12, h PM -> h + 12 and h AM -> h otherwise, for the
\* opening and the closing time alike; the result is in 0..23.
C22_TwelveHourConversion ==
    (called /\ parsed.matched) =>
        /\ parsed.openHour = Claimed24(Opens.h, Opens.p)
        /\ parsed.closeHour = Claimed24(Closes.h, Closes.p)
        /\ parsed.openHour \in 0..23
        /\ parsed.closeHour \in 0..23

C22_Witness ==
    /\ called /\ parsed.matched
    /\ Opens = Time(12, "AM") /\ parsed.openHour = 0
    /\ Closes = Time(11, "PM") /\ parsed.closeHour = 23

\* C28: an entry whose closing hour parses to no more than its opening hour
\* (a span across midnight, or a close at 12 AM) makes isOpenAtTime false
\* at every hour of its weekday, and the following weekday is decided by its
\* own entry alone (Tuesday: 9 AM to 5 PM).
C28_OvernightNeverOpen ==
    called =>
        /\ (parsed.matched /\ parsed.closeHour <= parsed.openHour) =>
              \A h \in Hours : ~openAt[h]
        /\ TargetDay = "Tuesday" =>
              \A h \in Hours : openAt[h] <=> (9 <= h /\ h < 17)

C28_Witness ==
    /\ called /\ parsed.matched
    /\ TargetDay = "Monday"
    /\ Opens = Time(6, "PM") /\ Closes = Time(2, "AM")
    /\ \A h \in Hours : ~openAt[h]

\* C29: whatever the base draw, a record scored during a peak hour (8..10,
\* 12..14, 17..19) never has busyness low, and one with a rating above 4.3
\* scored during a peak hour has busyness high and likelihood 20.
C29_PeakHourConsequences ==
    (score.call = "simulate" /\ draw.hour \in {8, 9, 10, 12, 13, 14, 17, 18, 19}) =>
        /\ score.busyness # "low"
        /\ draw.rating > 43 => (score.busyness = "high" /\ score.likelihood = 20)

C29_Witness ==
    /\ score.call = "simulate"
    /\ draw.hour = 17 /\ draw.base = 20 /\ draw.rating = 44
    /\ score.popularity = 70 /\ score.busyness = "high"

\* a dash followed by a clock time with AM or PM occurs in the text
HasClosingTime(e) ==
    \E i \in 1..(Len(e) - 1) : e[i].k = "dash" /\ e[i+1].k = "time"

\* the clock time after the first such dash
ClosingTimeOf(e) ==
    e[Min({i \in 1..(Len(e) - 1) : e[i].k = "dash" /\ e[i+1].k = "time"}) + 1]

\* the case in which getTodayClosingTime has something to return
ClosingLabelDue ==
    /\ HasTable
    /\ loc.openingHours.openNow = "true"
    /\ TargetEntries # {}
    /\ ~SaysClosed(MatchedEntry)
    /\ HasClosingTime(MatchedEntry)

\* C21: getTodayClosingTime returns the clock time after the dash of
\* today's entry when the table is present, the open-now flag is true and
\* today's entry exists, is not Closed and holds a closing time; in every
\* other case it returns nothing.
C21_ClosingTimeLabel ==
    closing.called =>
        /\ ClosingLabelDue => closing.result = <<ClosingTimeOf(MatchedEntry)>>
        /\ ~ClosingLabelDue => closing.result = <<>>

C21_Witness ==
    /\ closing.called
    /\ ClosingLabelDue
    /\ Len(Descs) = 2
    /\ closing.result = <<Time(12, "AM")>>

\* C23: a list card is handed distance and walkingTime iff the query point
\* is the device's location; showing the cards leaves the stored list as it
\* is, and the record handed to the details view on selection is a stored
\* record, with its distance and walkingTime.
C23_OverlayLeavesRecords ==
    /\ [](\A j \in 1..Len(cards) :
            /\ (cards[j].distance # -1) <=> (userLocation = "gps")
            /\ (cards[j].walkingTime # -1) <=> (userLocation = "gps"))
    /\ [](selectedLocation # <<>> =>
            selectedLocation[1].distance >= 0 /\ selectedLocation[1].walkingTime >= 0)
    /\ [][selectedLocation' # selectedLocation =>
            /\ locations' = locations
            /\ selectedLocation' # <<>> =>
                  \E j \in 1..Len(locations) : locations[j] = selectedLocation'[1]]_vars

C23_Witness ==
    /\ userLocation = "search"
    /\ selectedLocation # <<>>
    /\ selectedLocation[1].distance = 83 /\ selectedLocation[1].walkingTime = 2

\* C24: a search that is empty, finds no match, gets an error description
\* or throws leaves the query point, the real-location flag, the stored
\* list and the fetches as they are; a search that succeeds delivers the
\* first match's point and address once: the query point becomes that
\* point and one fetch is issued for it.
C24_GeocodingFailureChangesNothing ==
    [][(lastSearch' # lastSearch \/ geocoding' # geocoding) =>
          IF geocoding /\ ~geocoding' /\ lastSearch'.outcome = "ok"
          THEN /\ lastSearch'.matches # <<>>
               /\ lastSearch'.point = lastSearch'.matches[1].location
               /\ lastSearch'.matches[1].formattedAddress # "" =>
                     lastSearch'.address = lastSearch'.matches[1].formattedAddress
               /\ userLocation' = lastSearch'.point
               /\ ~hasRealLocation'
               /\ issued' = issued + 1
               /\ \E r \in inflight' : r.id = issued' /\ r.point = lastSearch'.point
               /\ locations' = locations
          ELSE UNCHANGED <<userLocation, hasRealLocation, locations, issued, inflight,
                           loading>>]_vars

C24_Witness ==
    /\ lastSearch.outcome = "ok"
    /\ Len(lastSearch.matches) = 2
    /\ userLocation = "search"
    /\ \E r \in inflight : r.point = "search"

\* C25 (as claimed): once every place fetch has completed, the stored list
\* is the response to the most recently issued request: it is the one for
\* the current query point and filter.
C25_LatestRequestWins ==
    (issued > 0 /\ inflight = {} /\ lastOutcome = "ok") =>
        /\ locationsFor.point = userLocation
        /\ locationsFor.type = requestType(filter)

\* C26 (as claimed): loading is true whenever a place fetch is in flight and
\* false once none is.
C26_LoadingTracksInflight == loading <=> (inflight # {})

\* C27: a moveend sets a timer only while the drag flag is set; at most one
\* timer is pending, the one of the last moveend; when it fires, one fetch
\* is issued for the centre that moveend reported and the drag flag is
\* cleared.
C27_DragGatedDebounce ==
    /\ [](Cardinality(timers) <= 1)
    /\ [](\A t \in timers :
            isUserDraggingRef /\ t.id = fetchTimeoutRef /\ t.centre = lastMoveEnd)
    /\ [][timersSet' # timersSet => (isUserDraggingRef /\ timersSet' = timersSet + 1)]_vars
    /\ [][(timers # {} /\ timers' = {}) =>
            /\ \A t \in timers :
                  /\ userLocation' = t.centre
                  /\ \E r \in inflight' \ inflight : r.id = issued' /\ r.point = t.centre
            /\ issued' = issued + 1
            /\ ~isUserDraggingRef']_vars

C27_Witness ==
    /\ timersSet = 2
    /\ timers = {}
    /\ issued = 2
    /\ geoPending
    /\ userLocation = "mapB"
    /\ ~isUserDraggingRef

\* C30: a request issued while the filter is all carries type cafe and has
\* the collaborator searched for cafe and coffee_shop; the collaborator is
\* searched for library only when the type is exactly library.
C30_AllFetchedAsCafe ==
    /\ [](\A t \in {"all", "cafe", "library"} :
            (includedTypes(t) = {"library"}) <=> (t = "library"))
    /\ [][\A r \in inflight' \ inflight :
            /\ filter' = "all" =>
                  (r.type = "cafe" /\ r.includedTypes = {"cafe", "coffee_shop"})
            /\ (r.includedTypes = {"library"}) <=> (r.type = "library")
            /\ (r.includedTypes = {"cafe", "coffee_shop"}) <=> (r.type # "library")]_vars

C30_Witness ==
    /\ filter = "all"
    /\ \E r1, r2 \in inflight :
          /\ r1.type = "library" /\ r1.includedTypes = {"library"}
          /\ r2.type = "cafe" /\ r2.id > r1.id

====
